---- MODULE Spec2Model ----
(***************************************************************************)
(* State-machine model of gh::thirtytwobits::SwitchMatrixScanner           *)
(* (src/src/SwitchMatrixScanner.h): the switch map, the software debounce  *)
(* filter, the latched-state decision and the two fixed-capacity event     *)
(* buffers with their mid-pass and end-of-pass flushes.                    *)
(*                                                                         *)
(* scan() is modelled at the granularity of its loop body: entering the    *)
(* call, driving a row, sampling one cell, releasing the row, and the two  *)
(* trailing flushes with the return.  pc, r and c are the position of the  *)
(* call; while pc # "idle" no other operation of the object can run (the   *)
(* object is single threaded).                                             *)
(***************************************************************************)
EXTENDS Integers, Sequences, FiniteSets, TLC

(***************************************************************************)
(* Template parameters and model bounds                                    *)
(***************************************************************************)
\* SwitchMatrixScanner<2, 2>, one of the instantiations of the test suite.
ROW_COUNT == 2
COL_COUNT == 2
\* Template parameter EVENT_BUFFER_SIZE (default 10), kept small so that a
\* pass over ROW_COUNT*COL_COUNT cells can fill a buffer.
EVENT_BUFFER_SIZE == 2
\* Number of scan() calls explored with free pin levels.
MaxScans == 3
\* Number of scan() calls explored with free pin levels and isSwitchClosed calls.
MaxQueryScans == 2
\* Number of scan() calls explored with one switch bouncing, debounce on.
MaxBounceScans == 20
\* Number of scan() calls explored with held pin levels.
MaxHoldScans == 21
\* The delivery counters saturate here.
CountCap == 2

(***************************************************************************)
(* Arduino constants as seen by the header                                 *)
(***************************************************************************)
INPUT        == "INPUT"
INPUT_PULLUP == "INPUT_PULLUP"
OUTPUT       == "OUTPUT"
LOW          == "LOW"
HIGH         == "HIGH"
Levels       == {LOW, HIGH}
NULL         == "nullptr"

\* enum SwitchState
UNKNOWN == "UNKNOWN"
OPEN    == "OPEN"
CLOSED  == "CLOSED"

Rows  == 0 .. (ROW_COUNT - 1)
Cols  == 0 .. (COL_COUNT - 1)
Cells == Rows \X Cols
ScanCodes == 1 .. (ROW_COUNT * COL_COUNT)

(***************************************************************************)
(* Fixed-width integer arithmetic                                          *)
(***************************************************************************)
RECURSIVE BitAnd(_, _)
BitAnd(a, b) ==
    IF a = 0 \/ b = 0 THEN 0
    ELSE (a % 2) * (b % 2) + 2 * BitAnd(a \div 2, b \div 2)

RECURSIVE BitOr(_, _)
BitOr(a, b) ==
    IF a = 0 THEN b
    ELSE IF b = 0 THEN a
    ELSE (IF a % 2 = 1 \/ b % 2 = 1 THEN 1 ELSE 0) + 2 * BitOr(a \div 2, b \div 2)

Shl(a, n) == a * (2 ^ n)
Shr(a, n) == a \div (2 ^ n)
U8(x)     == x % 256
U16(x)    == x % 65536

(***************************************************************************)
(* Software debouncing parameters                                          *)
(***************************************************************************)
DebounceSettleCount == 4
DebounceSampleCount == 3
DebounceSettleBits  == 3
DebounceSampleBits  == 5
DebounceSettleShift == DebounceSampleBits
DebounceSettleMask  == U8(Shl(Shl(1, DebounceSettleBits) - 1, DebounceSettleShift))
DebounceSampleMask  == U8(Shl(1, DebounceSampleBits) - 1)

VARIABLES
    m_switch_map,                        \* [r][c] -> SwitchDef
    m_row_pins,                          \* [r] -> pin id
    m_col_pins,                          \* [c] -> pin id
    m_switchhandler_closed,
    m_switchhandler_open,
    m_column_input_type,
    m_enable_software_debounce,
    m_scancode_event_buffer_opened,      \* [0 .. EVENT_BUFFER_SIZE-1] -> scancode
    m_scancode_event_buffer_opened_len,
    m_scancode_event_buffer_closed,
    m_scancode_event_buffer_closed_len,
    pin_mode,                            \* GPIO: pin id -> mode given by pinMode
    pin_out,                             \* GPIO: pin id -> level given by digitalWrite
    gpio,                                \* GPIO calls of the running/last operation
    pc, r, c,                            \* position of the scan() call
    scans,                               \* scan() calls started so far
    env, limit,                          \* what the pins read, how long we look
    calls,                               \* dispatches of the running/last pass
    events,                              \* events queued in the running/last pass
    closed_delivered,                    \* scancode -> closed events dispatched (saturating)
    open_delivered,                      \* scancode -> open events dispatched (saturating)
    was_open,                            \* scancode -> latched OPEN since its last closed event
    oob_write,                           \* an event-buffer store fell outside the array
    ctor_args,                           \* the flags the constructor was given
    last_call,                           \* the last public operation called, with its arguments
    samples                              \* cell -> what has been observed of its raw samples

vars == << m_switch_map, m_row_pins, m_col_pins, m_switchhandler_closed,
           m_switchhandler_open, m_column_input_type, m_enable_software_debounce,
           m_scancode_event_buffer_opened, m_scancode_event_buffer_opened_len,
           m_scancode_event_buffer_closed, m_scancode_event_buffer_closed_len,
           pin_mode, pin_out, gpio, pc, r, c, scans, env, limit, calls, events,
           closed_delivered, open_delivered, was_open, oob_write,
           ctor_args, last_call, samples >>

objvars == << m_switch_map, m_row_pins, m_col_pins, m_switchhandler_closed,
              m_switchhandler_open, m_column_input_type, m_enable_software_debounce,
              m_scancode_event_buffer_opened, m_scancode_event_buffer_opened_len,
              m_scancode_event_buffer_closed, m_scancode_event_buffer_closed_len >>

(***************************************************************************)
(* Construction                                                            *)
(***************************************************************************)
\* struct SwitchDef
SwitchDef(scancode, state, sample_buffer) ==
    [scancode |-> scancode, state |-> state, sample_buffer |-> sample_buffer]

\* The constructor's loop filling the map column by column.
RECURSIVE ConstructLoop_column_major(_, _, _, _)
ConstructLoop_column_major(map, rr, cc, scancode) ==
    IF rr >= ROW_COUNT THEN map
    ELSE IF cc >= COL_COUNT THEN ConstructLoop_column_major(map, rr + 1, 0, scancode)
    ELSE ConstructLoop_column_major(
             [map EXCEPT ![cc][rr] = SwitchDef(scancode, UNKNOWN, 0)],
             rr, cc + 1, U16(scancode + 1))

\* The constructor's nested loop with its running scancode counter.
RECURSIVE ConstructLoop(_, _, _, _)
ConstructLoop(map, rr, cc, scancode) ==
    IF rr >= ROW_COUNT THEN map
    ELSE IF cc >= COL_COUNT THEN ConstructLoop(map, rr + 1, 0, scancode)
    ELSE ConstructLoop([map EXCEPT ![rr][cc] = SwitchDef(scancode, UNKNOWN, 0)],
                       rr, cc + 1, U16(scancode + 1))

\* The constructor leaving one sample bit set in every cell.
Construct_sample_set ==
    LET map == ConstructLoop([rr \in Rows |-> [cc \in Cols |-> SwitchDef(0, UNKNOWN, 0)]],
                             0, 0, 1)
    IN  [rr \in Rows |-> [cc \in Cols |-> [map[rr][cc] EXCEPT !.sample_buffer = 1]]]

\* m_switch_map() value-initialised, then filled by the loop.
Construct ==
    ConstructLoop([rr \in Rows |-> [cc \in Cols |-> SwitchDef(0, UNKNOWN, 0)]], 0, 0, 1)

\* Pin ids as the test fixture chooses them: col[i] = i, row[i] = i + col_count.
TestRowPins == [rr \in Rows |-> rr + COL_COUNT]
TestColPins == [cc \in Cols |-> cc]
Pins        == 0 .. (ROW_COUNT + COL_COUNT - 1)

EmptyBuffer == [i \in 0 .. (EVENT_BUFFER_SIZE - 1) |-> 0]

InitObject(enable_pullups, enable_software_debounce) ==
    /\ m_switch_map = Construct
    /\ m_row_pins = TestRowPins
    /\ m_col_pins = TestColPins
    /\ m_switchhandler_closed = NULL
    /\ m_switchhandler_open = NULL
    /\ m_column_input_type = (IF enable_pullups THEN INPUT_PULLUP ELSE INPUT)
    /\ m_enable_software_debounce = enable_software_debounce
    /\ m_scancode_event_buffer_opened = EmptyBuffer
    /\ m_scancode_event_buffer_opened_len = 0
    /\ m_scancode_event_buffer_closed = EmptyBuffer
    /\ m_scancode_event_buffer_closed_len = 0
    /\ ctor_args = [enable_pullups |-> enable_pullups,
                    enable_software_debounce |-> enable_software_debounce]

InitWorld ==
    /\ pin_mode = [p \in Pins |-> "UNSET"]
    /\ pin_out = [p \in Pins |-> "NONE"]
    /\ gpio = << >>
    /\ pc = "idle" /\ r = 0 /\ c = 0
    /\ scans = 0
    /\ calls = << >>
    /\ events = << >>
    /\ closed_delivered = [s \in ScanCodes |-> 0]
    /\ open_delivered = [s \in ScanCodes |-> 0]
    /\ was_open = [s \in ScanCodes |-> FALSE]
    /\ oob_write = FALSE
    /\ last_call = [op |-> "none"]

\* What the observer keeps of a cell's raw samples: whether it keeps
\* anything, whether the cell's latched state has changed yet and how many
\* passes ago (saturating), the level last read and for how many passes
\* running (saturating), and whether every read so far was pressed.
Observation(observed) ==
    [observed |-> observed, changed |-> FALSE, since_change |-> 0,
     run_level |-> "none", run_len |-> 0, only_pressed |-> TRUE]

Unobserved == Observation(FALSE)

\* The observation after a pass sampled the cell: value read, old and new
\* latched state.
Observe(obs, value, old_state, new_state) ==
    IF ~obs.observed THEN obs
    ELSE LET latched == new_state # old_state
             since_cap == 1 + DebounceSettleCount + DebounceSampleBits
         IN  [observed     |-> TRUE,
              changed      |-> obs.changed \/ latched,
              since_change |-> IF latched THEN 0
                               ELSE IF obs.since_change < since_cap
                                    THEN obs.since_change + 1 ELSE since_cap,
              run_level    |-> value,
              run_len      |-> IF value # obs.run_level THEN 1
                               ELSE IF obs.run_len < DebounceSampleBits
                                    THEN obs.run_len + 1 ELSE DebounceSampleBits,
              only_pressed |-> obs.only_pressed /\ value = LOW]

\* Any pin levels, either debounce mode.
Init ==
    /\ \E enable_pullups \in BOOLEAN, enable_software_debounce \in BOOLEAN :
          InitObject(enable_pullups, enable_software_debounce)
    /\ InitWorld
    /\ env = [rr \in Rows |-> [cc \in Cols |-> "free"]]
    /\ limit = MaxScans
    /\ samples = [cell \in Cells |-> Unobserved]

\* Any pin levels, a shorter run, for the programs that call isSwitchClosed.
InitQuery ==
    /\ \E enable_pullups \in BOOLEAN, enable_software_debounce \in BOOLEAN :
          InitObject(enable_pullups, enable_software_debounce)
    /\ InitWorld
    /\ env = [rr \in Rows |-> [cc \in Cols |-> "free"]]
    /\ limit = MaxQueryScans
    /\ samples = [cell \in Cells |-> Unobserved]

\* One switch held pressed, every other switch held released, debounce on.
InitHold ==
    /\ \E enable_pullups \in BOOLEAN : InitObject(enable_pullups, TRUE)
    /\ InitWorld
    /\ \E held \in Cells :
          env = [rr \in Rows |-> [cc \in Cols |->
                    IF << rr, cc >> = held THEN "low" ELSE "high"]]
    /\ limit = MaxHoldScans
    /\ samples = [cell \in Cells |-> Unobserved]

\* One switch read at any level on every pass, every other switch held
\* released, debounce on.
InitBounce ==
    /\ \E enable_pullups \in BOOLEAN : InitObject(enable_pullups, TRUE)
    /\ InitWorld
    /\ \E bouncing \in Cells :
          env = [rr \in Rows |-> [cc \in Cols |->
                    IF << rr, cc >> = bouncing THEN "free" ELSE "high"]]
    /\ limit = MaxBounceScans
    /\ samples = [cell \in Cells |-> Unobserved]

\* As InitBounce, with every cell's raw samples observed.
InitTrace ==
    /\ \E enable_pullups \in BOOLEAN : InitObject(enable_pullups, TRUE)
    /\ InitWorld
    /\ \E bouncing \in Cells :
          env = [rr \in Rows |-> [cc \in Cols |->
                    IF << rr, cc >> = bouncing THEN "free" ELSE "high"]]
    /\ limit = MaxBounceScans
    /\ samples = [cell \in Cells |-> Observation(TRUE)]

(***************************************************************************)
(* Helpers of the class                                                    *)
(***************************************************************************)
is_closed(sample_mask, sample_buffer) ==
    BitAnd(sample_mask, sample_buffer) = sample_mask

is_open(sample_mask, sample_buffer) ==
    BitAnd(sample_mask, sample_buffer) = 0

\* Variant: the whole history byte is cleared, window included.
reset_sample_count_clear_window(swtch) == 0

\* Variant: the history byte is returned as it is, settle counter included.
reset_sample_count_keep_settle(swtch) == swtch.sample_buffer

reset_sample_count(swtch) ==
    BitAnd(DebounceSampleMask, swtch.sample_buffer)

\* Variant: the saturated branch shifts the window but loses the new sample.
handleSoftwareDebounce_drop_sample(swtch, is_switch_pressed) ==
    LET settle_count ==
            Shr(BitAnd(swtch.sample_buffer, DebounceSettleMask), DebounceSettleShift)
    IN  IF settle_count < DebounceSettleCount
        THEN [swtch EXCEPT !.sample_buffer =
                 U8(BitOr(Shl(settle_count + 1, DebounceSettleShift),
                          BitAnd(DebounceSampleMask, swtch.sample_buffer)))]
        ELSE [swtch EXCEPT !.sample_buffer =
                 U8(BitOr(Shl(settle_count, DebounceSettleShift),
                          BitAnd(DebounceSampleMask, Shl(swtch.sample_buffer, 1))))]

\* Variant: the settle branch counts and folds the raw sample in as well.
handleSoftwareDebounce_fold_while_settling(swtch, is_switch_pressed) ==
    LET settle_count ==
            Shr(BitAnd(swtch.sample_buffer, DebounceSettleMask), DebounceSettleShift)
    IN  IF settle_count < DebounceSettleCount
        THEN [swtch EXCEPT !.sample_buffer =
                 U8(BitOr(BitOr(Shl(settle_count + 1, DebounceSettleShift),
                                BitAnd(DebounceSampleMask, Shl(swtch.sample_buffer, 1))),
                          IF is_switch_pressed THEN 1 ELSE 0))]
        ELSE [swtch EXCEPT !.sample_buffer =
                 U8(BitOr(BitOr(Shl(settle_count, DebounceSettleShift),
                                BitAnd(DebounceSampleMask, Shl(swtch.sample_buffer, 1))),
                          IF is_switch_pressed THEN 1 ELSE 0))]

\* Variant: the settle counter is incremented on every pass, without a bound.
handleSoftwareDebounce_unsaturated(swtch, is_switch_pressed) ==
    LET settle_count ==
            Shr(BitAnd(swtch.sample_buffer, DebounceSettleMask), DebounceSettleShift)
    IN  [swtch EXCEPT !.sample_buffer =
            U8(BitOr(Shl(settle_count + 1, DebounceSettleShift),
                     BitAnd(DebounceSampleMask, swtch.sample_buffer)))]

handleSoftwareDebounce(swtch, is_switch_pressed) ==
    LET settle_count ==
            Shr(BitAnd(swtch.sample_buffer, DebounceSettleMask), DebounceSettleShift)
    IN  IF settle_count < DebounceSettleCount
        THEN [swtch EXCEPT !.sample_buffer =
                 U8(BitOr(Shl(settle_count + 1, DebounceSettleShift),
                          BitAnd(DebounceSampleMask, swtch.sample_buffer)))]
        ELSE [swtch EXCEPT !.sample_buffer =
                 U8(BitOr(BitOr(Shl(settle_count, DebounceSettleShift),
                                BitAnd(DebounceSampleMask, Shl(swtch.sample_buffer, 1))),
                          IF is_switch_pressed THEN 1 ELSE 0))]

(***************************************************************************)
(* The event buffers.  B is the part of the object and of the observation  *)
(* that the buffer code reads and writes:                                  *)
(*   closed, closed_len, opened, opened_len  the two arrays and counts     *)
(*   calls   what onSwitchClosed/onSwitchOpen were given, in order         *)
(*   events  what handleSwitchState queued, in order                       *)
(*   oob     a store at an index outside the array happened                *)
(***************************************************************************)
Buffers ==
    [closed     |-> m_scancode_event_buffer_closed,
     closed_len |-> m_scancode_event_buffer_closed_len,
     opened     |-> m_scancode_event_buffer_opened,
     opened_len |-> m_scancode_event_buffer_opened_len,
     calls      |-> calls,
     events     |-> events,
     oob        |-> oob_write]

\* array[len++] = scancode.  A store outside the array is recorded, the
\* array is left as it was.
Store(array, index, value) ==
    IF index \in DOMAIN array THEN [array EXCEPT ![index] = value] ELSE array

\* Variant: array[++len] = scancode.
PushClosed_preincrement(B, scancode) ==
    [B EXCEPT !.closed     = Store(B.closed, B.closed_len + 1, scancode),
              !.closed_len = B.closed_len + 1,
              !.oob        = B.oob \/ ((B.closed_len + 1) \notin DOMAIN B.closed),
              !.events     = Append(B.events, [kind |-> "closed", scancode |-> scancode])]

\* Variant: the scancode is stored in front of the ones already waiting.
PushClosed_in_front(B, scancode) ==
    [B EXCEPT !.closed     = [i \in DOMAIN B.closed |->
                                 IF i = 0 THEN scancode
                                 ELSE IF i <= B.closed_len THEN B.closed[i - 1]
                                 ELSE B.closed[i]],
              !.closed_len = B.closed_len + 1,
              !.oob        = B.oob \/ (B.closed_len \notin DOMAIN B.closed),
              !.events     = Append(B.events, [kind |-> "closed", scancode |-> scancode])]

PushClosed(B, scancode) ==
    [B EXCEPT !.closed     = Store(B.closed, B.closed_len, scancode),
              !.closed_len = B.closed_len + 1,
              !.oob        = B.oob \/ (B.closed_len \notin DOMAIN B.closed),
              !.events     = Append(B.events, [kind |-> "closed", scancode |-> scancode])]

PushOpened(B, scancode) ==
    [B EXCEPT !.opened     = Store(B.opened, B.opened_len, scancode),
              !.opened_len = B.opened_len + 1,
              !.oob        = B.oob \/ (B.opened_len \notin DOMAIN B.opened),
              !.events     = Append(B.events, [kind |-> "open", scancode |-> scancode])]

\* The handler of a kind is given the whole array and the count.  An entry
\* whose handler is nullptr is a dispatch that invoked nothing.
onSwitchClosed(B, scancodes, scancodes_len) ==
    LET switchhandler_closed == m_switchhandler_closed
    IN  [B EXCEPT !.calls = Append(B.calls,
            [kind |-> "closed", handler |-> switchhandler_closed,
             scancodes |-> scancodes, scancodes_len |-> scancodes_len])]

\* onSwitchOpen dispatching to the closed handler.
onSwitchOpen_closed_handler(B, scancodes, scancodes_len) ==
    LET switchhandler_open == m_switchhandler_closed
    IN  [B EXCEPT !.calls = Append(B.calls,
            [kind |-> "open", handler |-> switchhandler_open,
             scancodes |-> scancodes, scancodes_len |-> scancodes_len])]

onSwitchOpen(B, scancodes, scancodes_len) ==
    LET switchhandler_open == m_switchhandler_open
    IN  [B EXCEPT !.calls = Append(B.calls,
            [kind |-> "open", handler |-> switchhandler_open,
             scancodes |-> scancodes, scancodes_len |-> scancodes_len])]

\* Variant: the count is not tested before the dispatch.
flush_opened_events_unguarded(B) ==
    [onSwitchOpen(B, B.opened, B.opened_len) EXCEPT !.opened_len = 0]

flush_opened_events(B) ==
    IF B.opened_len > 0
    THEN [onSwitchOpen(B, B.opened, B.opened_len) EXCEPT !.opened_len = 0]
    ELSE B

\* Variant: only a full buffer is flushed.
flush_closed_events_only_full(B) ==
    IF B.closed_len = EVENT_BUFFER_SIZE
    THEN [onSwitchClosed(B, B.closed, B.closed_len) EXCEPT !.closed_len = 0]
    ELSE B

flush_closed_events(B) ==
    IF B.closed_len > 0
    THEN [onSwitchClosed(B, B.closed, B.closed_len) EXCEPT !.closed_len = 0]
    ELSE B

\* Variant: the open branch queues the event unless the switch was UNKNOWN.
handleSwitchState_report_release(swtch, B) ==
    IF is_closed(DebounceSampleMask, swtch.sample_buffer) /\ swtch.state # CLOSED
    THEN [swtch |-> [swtch EXCEPT !.state = CLOSED,
                                  !.sample_buffer = reset_sample_count(swtch)],
          B |-> PushClosed(B, swtch.scancode),
          pending_event |-> TRUE]
    ELSE IF is_open(DebounceSampleMask, swtch.sample_buffer) /\ swtch.state # OPEN
    THEN LET oldState == swtch.state
         IN  [swtch |-> [swtch EXCEPT !.state = OPEN,
                                      !.sample_buffer = reset_sample_count(swtch)],
              B |-> IF oldState # UNKNOWN THEN PushOpened(B, swtch.scancode) ELSE B,
              pending_event |-> (oldState # UNKNOWN)]
    ELSE [swtch |-> swtch, B |-> B, pending_event |-> FALSE]

\* Variant: the closed branch does not test the latched state.
handleSwitchState_no_state_check(swtch, B) ==
    IF is_closed(DebounceSampleMask, swtch.sample_buffer)
    THEN [swtch |-> [swtch EXCEPT !.state = CLOSED,
                                  !.sample_buffer = reset_sample_count(swtch)],
          B |-> PushClosed(B, swtch.scancode),
          pending_event |-> TRUE]
    ELSE IF is_open(DebounceSampleMask, swtch.sample_buffer) /\ swtch.state # OPEN
    THEN LET oldState == swtch.state
         IN  [swtch |-> [swtch EXCEPT !.state = OPEN,
                                      !.sample_buffer = reset_sample_count(swtch)],
              B |-> IF oldState = UNKNOWN THEN PushOpened(B, swtch.scancode) ELSE B,
              pending_event |-> (oldState = UNKNOWN)]
    ELSE [swtch |-> swtch, B |-> B, pending_event |-> FALSE]

\* Variant: the transitions are decided on the low DebounceSampleCount bits.
handleSwitchState_sample_count_mask(swtch, B) ==
    LET mask == Shl(1, DebounceSampleCount) - 1
    IN  IF is_closed(mask, swtch.sample_buffer) /\ swtch.state # CLOSED
        THEN [swtch |-> [swtch EXCEPT !.state = CLOSED,
                                      !.sample_buffer = reset_sample_count(swtch)],
              B |-> PushClosed(B, swtch.scancode),
              pending_event |-> TRUE]
        ELSE IF is_open(mask, swtch.sample_buffer) /\ swtch.state # OPEN
        THEN LET oldState == swtch.state
             IN  [swtch |-> [swtch EXCEPT !.state = OPEN,
                                          !.sample_buffer = reset_sample_count(swtch)],
                  B |-> IF oldState = UNKNOWN THEN PushOpened(B, swtch.scancode) ELSE B,
                  pending_event |-> (oldState = UNKNOWN)]
        ELSE [swtch |-> swtch, B |-> B, pending_event |-> FALSE]

\* Variant: the open branch is taken from CLOSED only.
handleSwitchState_open_from_closed_only(swtch, B) ==
    IF is_closed(DebounceSampleMask, swtch.sample_buffer) /\ swtch.state # CLOSED
    THEN [swtch |-> [swtch EXCEPT !.state = CLOSED,
                                  !.sample_buffer = reset_sample_count(swtch)],
          B |-> PushClosed(B, swtch.scancode),
          pending_event |-> TRUE]
    ELSE IF is_open(DebounceSampleMask, swtch.sample_buffer) /\ swtch.state = CLOSED
    THEN [swtch |-> [swtch EXCEPT !.state = OPEN,
                                  !.sample_buffer = reset_sample_count(swtch)],
          B |-> PushOpened(B, swtch.scancode),
          pending_event |-> TRUE]
    ELSE [swtch |-> swtch, B |-> B, pending_event |-> FALSE]

\* Variant: the closed branch queues the event and leaves the state as it was.
handleSwitchState_queue_without_latch(swtch, B) ==
    IF is_closed(DebounceSampleMask, swtch.sample_buffer) /\ swtch.state # CLOSED
    THEN [swtch |-> [swtch EXCEPT !.sample_buffer = reset_sample_count(swtch)],
          B |-> PushClosed(B, swtch.scancode),
          pending_event |-> TRUE]
    ELSE IF is_open(DebounceSampleMask, swtch.sample_buffer) /\ swtch.state # OPEN
    THEN LET oldState == swtch.state
         IN  [swtch |-> [swtch EXCEPT !.state = OPEN,
                                      !.sample_buffer = reset_sample_count(swtch)],
              B |-> IF oldState = UNKNOWN THEN PushOpened(B, swtch.scancode) ELSE B,
              pending_event |-> (oldState = UNKNOWN)]
    ELSE [swtch |-> swtch, B |-> B, pending_event |-> FALSE]

\* Variant: no transition is latched while an event of another cell waits.
handleSwitchState_skip_when_pending(swtch, B) ==
    IF B.closed_len > 0 \/ B.opened_len > 0
    THEN [swtch |-> swtch, B |-> B, pending_event |-> FALSE]
    ELSE IF is_closed(DebounceSampleMask, swtch.sample_buffer) /\ swtch.state # CLOSED
    THEN [swtch |-> [swtch EXCEPT !.state = CLOSED,
                                  !.sample_buffer = reset_sample_count(swtch)],
          B |-> PushClosed(B, swtch.scancode),
          pending_event |-> TRUE]
    ELSE IF is_open(DebounceSampleMask, swtch.sample_buffer) /\ swtch.state # OPEN
    THEN LET oldState == swtch.state
         IN  [swtch |-> [swtch EXCEPT !.state = OPEN,
                                      !.sample_buffer = reset_sample_count(swtch)],
              B |-> IF oldState = UNKNOWN THEN PushOpened(B, swtch.scancode) ELSE B,
              pending_event |-> (oldState = UNKNOWN)]
    ELSE [swtch |-> swtch, B |-> B, pending_event |-> FALSE]

\* Result: the switch, the buffers and the returned pending_event.
handleSwitchState(swtch, B) ==
    IF is_closed(DebounceSampleMask, swtch.sample_buffer) /\ swtch.state # CLOSED
    THEN [swtch |-> [swtch EXCEPT !.state = CLOSED,
                                  !.sample_buffer = reset_sample_count(swtch)],
          B |-> PushClosed(B, swtch.scancode),
          pending_event |-> TRUE]
    ELSE IF is_open(DebounceSampleMask, swtch.sample_buffer) /\ swtch.state # OPEN
    THEN LET oldState == swtch.state
         IN  [swtch |-> [swtch EXCEPT !.state = OPEN,
                                      !.sample_buffer = reset_sample_count(swtch)],
              B |-> IF oldState = UNKNOWN THEN PushOpened(B, swtch.scancode) ELSE B,
              pending_event |-> (oldState = UNKNOWN)]
    ELSE [swtch |-> swtch, B |-> B, pending_event |-> FALSE]

\* Variant: scan() without its mid-pass capacity checks.
FlushIfFull_never(B) == B

\* Variant: only the closed buffer's capacity is checked mid-pass.
FlushIfFull_closed_only(B) ==
    IF B.closed_len = EVENT_BUFFER_SIZE THEN flush_closed_events(B) ELSE B

\* The two capacity checks that follow a pending event in scan().
FlushIfFull(B) ==
    LET B1 == IF B.closed_len = EVENT_BUFFER_SIZE THEN flush_closed_events(B) ELSE B
    IN  IF B1.opened_len = EVENT_BUFFER_SIZE THEN flush_opened_events(B1) ELSE B1

\* scan() with the debounce-disabled branch storing one sample bit, not 0xFF.
ScanSwitch_one_bit(swtch, B, value) ==
    LET is_switch_pressed == (value = LOW)
        sampled == IF m_enable_software_debounce
                   THEN handleSoftwareDebounce(swtch, is_switch_pressed)
                   ELSE [swtch EXCEPT !.sample_buffer =
                            IF is_switch_pressed THEN 1 ELSE 0]
        hs == handleSwitchState(sampled, B)
    IN  [swtch |-> hs.swtch,
         B |-> IF hs.pending_event THEN FlushIfFull(hs.B) ELSE hs.B]

\* The body of scan()'s inner loop for one cell, given the level read.
ScanSwitch(swtch, B, value) ==
    LET is_switch_pressed == (value = LOW)
        sampled == IF m_enable_software_debounce
                   THEN handleSoftwareDebounce(swtch, is_switch_pressed)
                   ELSE [swtch EXCEPT !.sample_buffer =
                            IF is_switch_pressed THEN 255 ELSE 0]
        hs == handleSwitchState(sampled, B)
    IN  [swtch |-> hs.swtch,
         B |-> IF hs.pending_event THEN FlushIfFull(hs.B) ELSE hs.B]

\* isSwitchClosed taking the scancode as a zero-based index.
isSwitchClosed_zero_based(scancode) ==
    LET scanindex == U16(scancode)
    IN  IF scanindex >= ROW_COUNT * COL_COUNT THEN FALSE
        ELSE LET row == scanindex \div COL_COUNT
                 col == scanindex - (row * COL_COUNT)
             IN  m_switch_map[row][col].state = CLOSED

\* isSwitchClosed with the row and column indices exchanged in the lookup.
isSwitchClosed_transposed(scancode) ==
    IF scancode = 0 THEN FALSE
    ELSE LET scanindex == U16(scancode - 1)
         IN  IF scanindex >= ROW_COUNT * COL_COUNT THEN FALSE
             ELSE LET row == scanindex \div COL_COUNT
                      col == scanindex - (row * COL_COUNT)
                  IN  m_switch_map[col][row].state = CLOSED

isSwitchClosed(scancode) ==
    IF scancode = 0 THEN FALSE
    ELSE LET scanindex == U16(scancode - 1)
         IN  IF scanindex >= ROW_COUNT * COL_COUNT THEN FALSE
             ELSE LET row == scanindex \div COL_COUNT
                      col == scanindex - (row * COL_COUNT)
                  IN  m_switch_map[row][col].state = CLOSED

(***************************************************************************)
(* Observation: what has been dispatched so far                            *)
(***************************************************************************)
\* The scancodes a dispatch carries: the first scancodes_len of the array.
Batch(call) == [i \in 1 .. call.scancodes_len |-> call.scancodes[i - 1]]

Occurrences(seq, s) == Cardinality({i \in DOMAIN seq : seq[i] = s})

RECURSIVE Dispatched(_, _, _, _)
\* How often scancode s is carried by the dispatches of a kind in log[from ..].
Dispatched(log, from, kind, s) ==
    IF from > Len(log) THEN 0
    ELSE (IF log[from].kind = kind THEN Occurrences(Batch(log[from]), s) ELSE 0)
         + Dispatched(log, from + 1, kind, s)

Saturate(n) == IF n > CountCap THEN CountCap ELSE n

\* Writes the buffers back and accounts for the dispatches B made.
Commit(B, map) ==
    /\ m_scancode_event_buffer_closed' = B.closed
    /\ m_scancode_event_buffer_closed_len' = B.closed_len
    /\ m_scancode_event_buffer_opened' = B.opened
    /\ m_scancode_event_buffer_opened_len' = B.opened_len
    /\ calls' = B.calls
    /\ events' = B.events
    /\ oob_write' = B.oob
    /\ closed_delivered' = [s \in ScanCodes |->
          Saturate(closed_delivered[s] + Dispatched(B.calls, Len(calls) + 1, "closed", s))]
    /\ open_delivered' = [s \in ScanCodes |->
          Saturate(open_delivered[s] + Dispatched(B.calls, Len(calls) + 1, "open", s))]
    /\ was_open' = [s \in ScanCodes |->
          LET queued == \E i \in (Len(events) + 1) .. Len(B.events) :
                            B.events[i] = [kind |-> "closed", scancode |-> s]
              latched == \E cell \in Cells :
                            /\ map[cell[1]][cell[2]].scancode = s
                            /\ map[cell[1]][cell[2]].state = OPEN
          IN  IF queued THEN FALSE ELSE (was_open[s] \/ latched)]

(***************************************************************************)
(* Operations                                                              *)
(***************************************************************************)
GpioCall(fn, pin, arg) == [fn |-> fn, pin |-> pin, arg |-> arg]

RECURSIVE SetupRows(_, _)
\* setup()'s first loop: G is [mode, log].
SetupRows(G, rr) ==
    IF rr >= ROW_COUNT THEN G
    ELSE SetupRows([mode |-> [G.mode EXCEPT ![m_row_pins[rr]] = INPUT],
                    log  |-> Append(G.log, GpioCall("pinMode", m_row_pins[rr], INPUT))],
                   rr + 1)

\* setup()'s second loop configuring every column as a plain input.
RECURSIVE SetupCols_plain_input(_, _)
SetupCols_plain_input(G, cc) ==
    IF cc >= COL_COUNT THEN G
    ELSE SetupCols_plain_input(
             [mode |-> [G.mode EXCEPT ![m_col_pins[cc]] = INPUT],
              log  |-> Append(G.log, GpioCall("pinMode", m_col_pins[cc], INPUT))],
             cc + 1)

RECURSIVE SetupCols(_, _)
\* setup()'s second loop.
SetupCols(G, cc) ==
    IF cc >= COL_COUNT THEN G
    ELSE SetupCols([mode |-> [G.mode EXCEPT ![m_col_pins[cc]] = m_column_input_type],
                    log  |-> Append(G.log, GpioCall("pinMode", m_col_pins[cc],
                                                    m_column_input_type))],
                   cc + 1)

\* setup() putting the switch map back to its constructed value as well.
setup_reconstructing(switchclosed_handler, switchopen_handler) ==
    /\ pc = "idle"
    /\ m_switchhandler_closed' = switchclosed_handler
    /\ m_switchhandler_open' = switchopen_handler
    /\ m_switch_map' = Construct
    /\ LET G == SetupCols(SetupRows([mode |-> pin_mode, log |-> << >>], 0), 0)
       IN  /\ pin_mode' = G.mode
           /\ gpio' = G.log
    /\ last_call' = [op |-> "setup",
                     switchclosed_handler |-> switchclosed_handler,
                     switchopen_handler |-> switchopen_handler]
    /\ UNCHANGED << m_row_pins, m_col_pins, m_column_input_type,
                    m_enable_software_debounce,
                    m_scancode_event_buffer_opened, m_scancode_event_buffer_opened_len,
                    m_scancode_event_buffer_closed, m_scancode_event_buffer_closed_len,
                    pin_out, pc, r, c, scans, env, limit, calls, events,
                    closed_delivered, open_delivered, was_open, oob_write, ctor_args, samples >>

setup(switchclosed_handler, switchopen_handler) ==
    /\ pc = "idle"
    /\ m_switchhandler_closed' = switchclosed_handler
    /\ m_switchhandler_open' = switchopen_handler
    /\ LET G == SetupCols(SetupRows([mode |-> pin_mode, log |-> << >>], 0), 0)
       IN  /\ pin_mode' = G.mode
           /\ gpio' = G.log
    /\ last_call' = [op |-> "setup",
                     switchclosed_handler |-> switchclosed_handler,
                     switchopen_handler |-> switchopen_handler]
    /\ UNCHANGED << m_switch_map, m_row_pins, m_col_pins, m_column_input_type,
                    m_enable_software_debounce,
                    m_scancode_event_buffer_opened, m_scancode_event_buffer_opened_len,
                    m_scancode_event_buffer_closed, m_scancode_event_buffer_closed_len,
                    pin_out, pc, r, c, scans, env, limit, calls, events,
                    closed_delivered, open_delivered, was_open, oob_write, ctor_args, samples >>

\* scan() is called.
ScanCall ==
    /\ pc = "idle"
    /\ scans < limit
    /\ scans' = scans + 1
    /\ pc' = "row" /\ r' = 0 /\ c' = 0
    /\ gpio' = << >>
    /\ calls' = << >>
    /\ events' = << >>
    /\ last_call' = [op |-> "scan"]
    /\ UNCHANGED << objvars, pin_mode, pin_out, env, limit,
                    closed_delivered, open_delivered, was_open, oob_write, ctor_args, samples >>

\* pinMode(rowpin, OUTPUT); digitalWrite(rowpin, LOW);
ScanRowBegin ==
    /\ pc = "row"
    /\ r < ROW_COUNT
    /\ LET rowpin == m_row_pins[r]
       IN  /\ pin_mode' = [pin_mode EXCEPT ![rowpin] = OUTPUT]
           /\ pin_out' = [pin_out EXCEPT ![rowpin] = LOW]
           /\ gpio' = gpio \o << GpioCall("pinMode", rowpin, OUTPUT),
                                 GpioCall("digitalWrite", rowpin, LOW) >>
    /\ pc' = "col" /\ c' = 0
    /\ UNCHANGED << objvars, r, scans, env, limit, calls, events,
                    closed_delivered, open_delivered, was_open, oob_write,
                    ctor_args, samples, last_call >>

\* What digitalRead may return for the cell under the driven row.
Readable(rr, cc) ==
    CASE env[rr][cc] = "low"  -> {LOW}
      [] env[rr][cc] = "high" -> {HIGH}
      [] OTHER                -> Levels

\* The column loop stopping one column early.
ColumnLoopDone_one_short(cc) == cc >= COL_COUNT - 1

\* The column loop's exit test, c < COL_COUNT, negated.
ColumnLoopDone(cc) == cc >= COL_COUNT

\* One iteration of the column loop; the log keeps the level digitalRead gave.
ScanCell ==
    /\ pc = "col"
    /\ ~ColumnLoopDone(c)
    /\ \E value \in Readable(r, c) :
          LET res == ScanSwitch(m_switch_map[r][c], Buffers, value)
              map == [m_switch_map EXCEPT ![r][c] = res.swtch]
          IN  /\ m_switch_map' = map
              /\ Commit(res.B, map)
              /\ gpio' = Append(gpio, GpioCall("digitalRead", m_col_pins[c], value))
              /\ samples' = [samples EXCEPT ![<< r, c >>] =
                                Observe(@, value, m_switch_map[r][c].state,
                                        res.swtch.state)]
    /\ c' = c + 1
    /\ UNCHANGED << m_row_pins, m_col_pins, m_switchhandler_closed, m_switchhandler_open,
                    m_column_input_type, m_enable_software_debounce,
                    pin_mode, pin_out, pc, r, scans, env, limit, ctor_args, last_call >>

\* The end of the row without the pinMode(rowpin, INPUT) call.
ScanRowEnd_no_release ==
    /\ pc = "col"
    /\ ColumnLoopDone(c)
    /\ pc' = "row" /\ r' = r + 1 /\ c' = 0
    /\ UNCHANGED << objvars, pin_mode, pin_out, gpio, scans, env, limit, calls, events,
                    closed_delivered, open_delivered, was_open, oob_write,
                    ctor_args, samples, last_call >>

\* pinMode(rowpin, INPUT); and on to the next row.
ScanRowEnd ==
    /\ pc = "col"
    /\ ColumnLoopDone(c)
    /\ LET rowpin == m_row_pins[r]
       IN  /\ pin_mode' = [pin_mode EXCEPT ![rowpin] = INPUT]
           /\ gpio' = Append(gpio, GpioCall("pinMode", rowpin, INPUT))
    /\ pc' = "row" /\ r' = r + 1 /\ c' = 0
    /\ UNCHANGED << objvars, pin_out, scans, env, limit, calls, events,
                    closed_delivered, open_delivered, was_open, oob_write,
                    ctor_args, samples, last_call >>

\* flush_closed_events(); flush_opened_events(); and scan() returns.
ScanReturn ==
    /\ pc = "row"
    /\ r >= ROW_COUNT
    /\ Commit(flush_opened_events(flush_closed_events(Buffers)), m_switch_map)
    /\ pc' = "idle" /\ r' = 0 /\ c' = 0
    /\ UNCHANGED << m_switch_map, m_row_pins, m_col_pins, m_switchhandler_closed,
                    m_switchhandler_open, m_column_input_type,
                    m_enable_software_debounce,
                    pin_mode, pin_out, gpio, scans, env, limit, ctor_args, samples, last_call >>

\* isSwitchClosed clearing the sample history of every cell as it answers.
CallIsSwitchClosed_resets_history(scancode) ==
    /\ pc = "idle"
    /\ last_call' = [op |-> "isSwitchClosed", scancode |-> scancode,
                     result |-> isSwitchClosed(scancode)]
    /\ m_switch_map' = [rr \in Rows |-> [cc \in Cols |->
                           [m_switch_map[rr][cc] EXCEPT !.sample_buffer = 0]]]
    /\ UNCHANGED << m_row_pins, m_col_pins, m_switchhandler_closed, m_switchhandler_open,
                    m_column_input_type, m_enable_software_debounce,
                    m_scancode_event_buffer_opened, m_scancode_event_buffer_opened_len,
                    m_scancode_event_buffer_closed, m_scancode_event_buffer_closed_len,
                    pin_mode, pin_out, gpio, pc, r, c, scans, env, limit,
                    calls, events, closed_delivered, open_delivered, was_open,
                    oob_write, ctor_args, samples >>

\* bool isSwitchClosed(uint16_t scancode), called between scans.
CallIsSwitchClosed(scancode) ==
    /\ pc = "idle"
    /\ last_call' = [op |-> "isSwitchClosed", scancode |-> scancode,
                     result |-> isSwitchClosed(scancode)]
    /\ UNCHANGED << objvars, pin_mode, pin_out, gpio, pc, r, c, scans, env, limit,
                    calls, events, closed_delivered, open_delivered, was_open,
                    oob_write, ctor_args, samples >>

Handlers == {NULL, "handler"}

\* Arguments isSwitchClosed is called with: 0, every valid scancode, the
\* first invalid ones and the largest uint16_t.
QueryArgs == (0 .. (ROW_COUNT * COL_COUNT + 2)) \cup {65535}

Next ==
    \/ \E hc \in Handlers, ho \in Handlers : setup(hc, ho)
    \/ ScanCall
    \/ ScanRowBegin
    \/ ScanCell
    \/ ScanRowEnd
    \/ ScanReturn

\* The same program with isSwitchClosed called between scans; the call reads
\* the object and changes none of its fields.
NextQuery ==
    \/ \E hc \in Handlers, ho \in Handlers : setup(hc, ho)
    \/ \E scancode \in QueryArgs : CallIsSwitchClosed(scancode)
    \/ ScanCall \/ ScanRowBegin \/ ScanCell \/ ScanRowEnd \/ ScanReturn

Spec == Init /\ [][Next]_vars

SpecHold == InitHold /\ [][NextQuery]_vars

SpecQuery == InitQuery /\ [][NextQuery]_vars

SpecBounce == InitBounce /\ [][Next]_vars

SpecTrace == InitTrace /\ [][Next]_vars

(***************************************************************************)
(* Vocabulary of the properties                                            *)
(***************************************************************************)
Kinds == {"closed", "open"}

\* The cell that carries scancode s, and its record.
CellOf(s) == CHOOSE cell \in Cells : m_switch_map[cell[1]][cell[2]].scancode = s
SwitchOf(s) == m_switch_map[CellOf(s)[1]][CellOf(s)[2]]

\* scan() has been called at least once and is not running.
ScanReturned == pc = "idle" /\ scans > 0

\* Scancodes queued in this pass for a kind, in queueing order.
EventsOf(kind) ==
    LET es == SelectSeq(events, LAMBDA e : e.kind = kind)
    IN  [i \in 1 .. Len(es) |-> es[i].scancode]
\* Dispatches of this pass for a kind, in order.
CallsOf(kind) == SelectSeq(calls, LAMBDA k : k.kind = kind)

RECURSIVE FlattenBatches(_)
FlattenBatches(cs) ==
    IF cs = << >> THEN << >> ELSE Batch(Head(cs)) \o FlattenBatches(Tail(cs))

HandlerOf(kind) ==
    IF kind = "closed" THEN m_switchhandler_closed ELSE m_switchhandler_open

Distinct(seq) == \A i, j \in DOMAIN seq : seq[i] = seq[j] => i = j

\* This step queues scancode s on the open-event buffer: it is stored at the
\* old count and the count grows, or the buffer was flushed in the same step
\* with s as the last scancode of the batch.
QueuedOpen(s) ==
    \/ /\ m_scancode_event_buffer_opened_len' = m_scancode_event_buffer_opened_len + 1
       /\ m_scancode_event_buffer_opened'[m_scancode_event_buffer_opened_len] = s
    \/ /\ Len(calls') > Len(calls)
       /\ \E i \in (Len(calls) + 1) .. Len(calls') :
             /\ calls'[i].kind = "open"
             /\ calls'[i].scancodes_len = m_scancode_event_buffer_opened_len + 1
             /\ calls'[i].scancodes[m_scancode_event_buffer_opened_len] = s

QueuedClosed(s) ==
    \/ /\ m_scancode_event_buffer_closed_len' = m_scancode_event_buffer_closed_len + 1
       /\ m_scancode_event_buffer_closed'[m_scancode_event_buffer_closed_len] = s
    \/ /\ Len(calls') > Len(calls)
       /\ \E i \in (Len(calls) + 1) .. Len(calls') :
             /\ calls'[i].kind = "closed"
             /\ calls'[i].scancodes_len = m_scancode_event_buffer_closed_len + 1
             /\ calls'[i].scancodes[m_scancode_event_buffer_closed_len] = s

\* This step leaves the open-event side alone: nothing stored, nothing dispatched.
OpenSideUntouched ==
    /\ m_scancode_event_buffer_opened_len' = m_scancode_event_buffer_opened_len
    /\ m_scancode_event_buffer_opened' = m_scancode_event_buffer_opened
    /\ \A i \in (Len(calls) + 1) .. Len(calls') : calls'[i].kind # "open"

(***************************************************************************)
(* C1  Whenever scan() has returned, both event buffers are empty, and for *)
(* each kind the batches dispatched during the pass, in order, are exactly *)
(* the events queued during the pass: nothing waits for a later pass.      *)
(***************************************************************************)
C1_ScanReturnsFlushed ==
    ScanReturned =>
        /\ m_scancode_event_buffer_closed_len = 0
        /\ m_scancode_event_buffer_opened_len = 0
        /\ \A kind \in Kinds : FlattenBatches(CallsOf(kind)) = EventsOf(kind)

\* A pass has returned in which a closed event was flushed only at the end
\* of the pass (the buffer never filled).
C1_Witness ==
    /\ ScanReturned
    /\ Len(EventsOf("closed")) = 1
    /\ Len(CallsOf("closed")) = 1

(***************************************************************************)
(* C2  In every reachable state, mid-pass included, each buffer's count is *)
(* between 0 and EVENT_BUFFER_SIZE and no store has fallen outside an      *)
(* array.                                                                  *)
(***************************************************************************)
C2_CountWithinCapacity ==
    /\ m_scancode_event_buffer_closed_len \in 0 .. EVENT_BUFFER_SIZE
    /\ m_scancode_event_buffer_opened_len \in 0 .. EVENT_BUFFER_SIZE
    /\ ~oob_write

\* Mid-pass, more closed events than the buffer holds have been queued: the
\* buffer filled, was flushed, and holds the event queued after the flush.
C2_Witness ==
    /\ pc # "idle"
    /\ Len(EventsOf("closed")) = EVENT_BUFFER_SIZE + 1
    /\ Len(CallsOf("closed")) = 1
    /\ m_scancode_event_buffer_closed_len = 1

(***************************************************************************)
(* C3  A registered handler is never invoked with count 0: every           *)
(* invocation carries between 1 and EVENT_BUFFER_SIZE scancodes.           *)
(***************************************************************************)
C3_HandlerCountInRange ==
    \A i \in DOMAIN calls :
        calls[i].handler # NULL => calls[i].scancodes_len \in 1 .. EVENT_BUFFER_SIZE

\* In one pass a registered open-handler was invoked with a full batch
\* (mid-pass) and with a partial batch (end of pass).
C3_Witness ==
    /\ ScanReturned
    /\ \E i, j \in DOMAIN calls :
          /\ calls[i].kind = "open" /\ calls[i].handler # NULL
          /\ calls[i].scancodes_len = EVENT_BUFFER_SIZE
          /\ calls[j].kind = "open" /\ calls[j].handler # NULL
          /\ calls[j].scancodes_len = 1
          /\ EVENT_BUFFER_SIZE # 1

(***************************************************************************)
(* C4  If exactly EVENT_BUFFER_SIZE + 1 cells queue an event of one kind   *)
(* in a pass, that kind is dispatched exactly twice in the pass, both      *)
(* times to the handler registered for it during the pass: first           *)
(* EVENT_BUFFER_SIZE scancodes, then 1; the two batches together are the   *)
(* queued scancodes, each exactly once.                                    *)
(***************************************************************************)
C4_OverflowTwoBatches ==
    /\ pc # "idle" =>
          \A i \in DOMAIN calls : calls[i].handler = HandlerOf(calls[i].kind)
    /\ ScanReturned =>
          \A kind \in Kinds :
              Len(EventsOf(kind)) = EVENT_BUFFER_SIZE + 1 =>
                  LET cs == CallsOf(kind)
                  IN  /\ Len(cs) = 2
                      /\ cs[1].scancodes_len = EVENT_BUFFER_SIZE
                      /\ cs[2].scancodes_len = 1
                      /\ cs[1].handler = cs[2].handler
                      /\ Batch(cs[1]) \o Batch(cs[2]) = EventsOf(kind)
                      /\ Distinct(Batch(cs[1]) \o Batch(cs[2]))

\* A pass returned in which EVENT_BUFFER_SIZE + 1 cells closed and the
\* closed-handler was registered.
C4_Witness ==
    /\ ScanReturned
    /\ Len(EventsOf("closed")) = EVENT_BUFFER_SIZE + 1
    /\ \A i \in DOMAIN calls : calls[i].handler # NULL

(***************************************************************************)
(* C5  Release is reported: every step that takes a cell from CLOSED to    *)
(* OPEN queues that cell's scancode on the open-event buffer.              *)
(***************************************************************************)
C5_ReleaseReported ==
    [][\A s \in ScanCodes :
          (SwitchOf(s).state = CLOSED /\ SwitchOf(s).state' = OPEN) => QueuedOpen(s)]_vars

(***************************************************************************)
(* C6  The first detection of a released switch is silent: a step that     *)
(* takes a cell from UNKNOWN to OPEN stores nothing in the open-event      *)
(* buffer and dispatches no open batch.                                    *)
(***************************************************************************)
C6_InitialOpenSilent ==
    [][\A s \in ScanCodes :
          (SwitchOf(s).state = UNKNOWN /\ SwitchOf(s).state' = OPEN)
              => OpenSideUntouched]_vars

(***************************************************************************)
(* C7  No key-up before key-down: an open event has been dispatched for a  *)
(* scancode only if a closed event has been dispatched for it before.      *)
(***************************************************************************)
C7_NoOpenBeforeClosed ==
    \A s \in ScanCodes : open_delivered[s] > 0 => closed_delivered[s] > 0

ConvergenceScans == 1 + DebounceSettleCount + DebounceSampleBits

C9_DebounceConvergence ==
    \A cell \in Cells :
        LET s == m_switch_map[cell[1]][cell[2]].scancode
        IN  IF env[cell[1]][cell[2]] = "low"
            THEN /\ closed_delivered[s] <= 1
                 /\ (pc = "idle" /\ scans >= ConvergenceScans) =>
                        (closed_delivered[s] = 1 /\ isSwitchClosed(s))
            ELSE /\ closed_delivered[s] = 0
                 /\ ~isSwitchClosed(s)

\* The held switch has been reported closed once and has then been scanned,
\* still pressed, through a whole further settle period and sample window.
C9_Witness ==
    /\ pc = "idle"
    /\ scans >= 2 * ConvergenceScans
    /\ \E s \in ScanCodes : closed_delivered[s] = 1 /\ isSwitchClosed(s)

(***************************************************************************)
(* C10  No double report: a step queues a closed event for a scancode only *)
(* if its cell is not CLOSED, and, when a closed event was dispatched for  *)
(* it before, only if the cell has been latched OPEN since.                *)
(***************************************************************************)
C10_NoDoubleReport ==
    [][\A s \in ScanCodes :
          QueuedClosed(s) =>
              /\ SwitchOf(s).state # CLOSED
              /\ (closed_delivered[s] > 0 => was_open[s])]_vars

\* A switch has been reported closed twice (closed, released, closed again)
\* while another stayed closed through three passes and was reported once.
C10_Witness ==
    /\ scans = 3
    /\ \E s, t \in ScanCodes :
          /\ closed_delivered[s] = 2
          /\ closed_delivered[t] = 1 /\ ~was_open[t] /\ open_delivered[t] = 0
          /\ SwitchOf(t).state = CLOSED

(***************************************************************************)
(* C11  Sample scenario, read on row 0 of the grid (scancodes 1 and 2):     *)
(* debounce enabled, column 0 reads LOW and column 1 reads HIGH on every   *)
(* pass.  After 4 or more passes exactly one closed event has been         *)
(* dispatched for scancode 1, no event of either kind for scancode 2,      *)
(* isSwitchClosed(1) is true and isSwitchClosed(2) is false.               *)
(***************************************************************************)
SampleScenario ==
    /\ m_enable_software_debounce
    /\ env[0][0] = "low"
    /\ env[0][1] = "high"

C11_SampleScenario ==
    (SampleScenario /\ pc = "idle" /\ scans >= 4) =>
        /\ closed_delivered[1] = 1
        /\ closed_delivered[2] = 0
        /\ open_delivered[2] = 0
        /\ isSwitchClosed(1)
        /\ ~isSwitchClosed(2)

(***************************************************************************)
(* Vocabulary of the pin log                                               *)
(***************************************************************************)
\* scan() was the last operation called and it has returned: gpio is the log
\* of that pass.
AfterScan == pc = "idle" /\ last_call.op = "scan"

\* The row pin most recently put in OUTPUT mode before log entry i (the pin
\* itself when none was).
DrivenPinAt(log, i) ==
    LET js == {j \in 1 .. i : log[j].fn = "pinMode" /\ log[j].arg = OUTPUT}
    IN  IF js = {} THEN log[i].pin
        ELSE log[CHOOSE j \in js : \A k \in js : k <= j].pin

\* Log entries that are reads of the cell: its column pin is read while its
\* row pin is the driven one.
ReadsOfCell(log, cell) ==
    {i \in DOMAIN log :
        /\ log[i].fn = "digitalRead"
        /\ log[i].pin = m_col_pins[cell[2]]
        /\ DrivenPinAt(log, i) = m_row_pins[cell[1]]}

LevelsRead(log, cell) == {log[i].arg : i \in ReadsOfCell(log, cell)}

(***************************************************************************)
(* C12  With software debounce disabled, when scan() has returned, for     *)
(* every valid scancode s, isSwitchClosed(s) is true if and only if the    *)
(* level read for s's cell during that pass was LOW.                       *)
(***************************************************************************)
C12_FollowsLatestSample ==
    (AfterScan /\ ~m_enable_software_debounce) =>
        \A s \in ScanCodes :
            isSwitchClosed(s) <=> (LevelsRead(gpio, CellOf(s)) = {LOW})

\* After a second pass without debounce, a switch that was read LOW is closed
\* and another, closed before and read HIGH in this pass, is not.
C12_Witness ==
    /\ AfterScan /\ ~m_enable_software_debounce
    /\ scans >= 2
    /\ \E s1, s2 \in ScanCodes :
          /\ LevelsRead(gpio, CellOf(s1)) = {LOW} /\ isSwitchClosed(s1)
          /\ LevelsRead(gpio, CellOf(s2)) = {HIGH} /\ ~isSwitchClosed(s2)
          /\ closed_delivered[s2] > 0

(***************************************************************************)
(* Vocabulary of the isSwitchClosed calls                                  *)
(***************************************************************************)
InvalidArgs == {q \in QueryArgs : q = 0 \/ q > ROW_COUNT * COL_COUNT}

\* This step is a call of isSwitchClosed(q): no pass is running and the last
\* operation called is that call.
Queried(q) ==
    /\ pc = "idle" /\ pc' = "idle"
    /\ last_call'.op = "isSwitchClosed"
    /\ last_call'.scancode = q

(***************************************************************************)
(* C13  In every reachable state isSwitchClosed is false for scancode 0    *)
(* and for every scancode greater than ROW_COUNT*COL_COUNT, and a call     *)
(* with such a scancode returns false and changes no field of the object   *)
(* and no pin.                                                             *)
(***************************************************************************)
C13_InvalidScancodeFalse ==
    /\ [](\A q \in InvalidArgs : ~isSwitchClosed(q))
    /\ [][\A q \in InvalidArgs :
             Queried(q) =>
                 /\ last_call'.result = FALSE
                 /\ UNCHANGED << objvars, pin_mode, pin_out, gpio >>]_vars

\* isSwitchClosed(0) has just returned false while every switch is closed.
C13_Witness ==
    /\ last_call = [op |-> "isSwitchClosed", scancode |-> 0, result |-> FALSE]
    /\ \A s \in ScanCodes : SwitchOf(s).state = CLOSED

(***************************************************************************)
(* C14  For a valid scancode s, isSwitchClosed(s) is true exactly when the *)
(* cell at row (s-1) div COL_COUNT, column (s-1) mod COL_COUNT is latched  *)
(* CLOSED, and that cell is the one whose assigned scancode is s; a call   *)
(* of isSwitchClosed(s) returns that value.                                *)
(***************************************************************************)
C14_QueryInvertsAssignment ==
    \A s \in ScanCodes :
        LET row == (s - 1) \div COL_COUNT
            col == (s - 1) % COL_COUNT
        IN  /\ m_switch_map[row][col].scancode = s
            /\ isSwitchClosed(s) <=> (m_switch_map[row][col].state = CLOSED)
            /\ (last_call.op = "isSwitchClosed" /\ last_call.scancode = s) =>
                   (last_call.result <=> (m_switch_map[row][col].state = CLOSED))

\* isSwitchClosed(2) has just returned true while the switch at row 1,
\* column 0 is not closed and the one at row 0, column 1 is.
C14_Witness ==
    /\ last_call = [op |-> "isSwitchClosed", scancode |-> 2, result |-> TRUE]
    /\ m_switch_map[0][1].state = CLOSED
    /\ m_switch_map[1][0].state # CLOSED

(***************************************************************************)
(* C15  In every reachable state, after any sequence of setup, scan and    *)
(* isSwitchClosed calls, cell (r,c) holds scancode r*COL_COUNT+c+1: the    *)
(* scancodes 1..ROW_COUNT*COL_COUNT are each held by exactly one cell, 0   *)
(* by none, and no step changes a cell's scancode.                         *)
(***************************************************************************)
C15_ScancodesRowMajorFixed ==
    /\ [](/\ \A cell \in Cells :
               m_switch_map[cell[1]][cell[2]].scancode
                   = cell[1] * COL_COUNT + cell[2] + 1
          /\ \A s \in 1 .. (ROW_COUNT * COL_COUNT) :
               Cardinality({cell \in Cells :
                               m_switch_map[cell[1]][cell[2]].scancode = s}) = 1
          /\ \A cell \in Cells : m_switch_map[cell[1]][cell[2]].scancode # 0)
    /\ [][\A cell \in Cells :
             m_switch_map'[cell[1]][cell[2]].scancode
                 = m_switch_map[cell[1]][cell[2]].scancode]_vars

\* setup, two passes and isSwitchClosed have been called, and a switch has
\* gone through CLOSED and back to OPEN.
C15_Witness ==
    /\ last_call.op = "isSwitchClosed"
    /\ scans >= 2
    /\ m_switchhandler_closed # NULL
    /\ \E s \in ScanCodes : closed_delivered[s] > 0 /\ SwitchOf(s).state = OPEN
    /\ \E s \in ScanCodes : SwitchOf(s).state = CLOSED

(***************************************************************************)
(* C16  Before the first scan() call (after construction, and after any    *)
(* setup or isSwitchClosed calls), isSwitchClosed(s) is false for every    *)
(* valid scancode s, every cell's state is UNKNOWN and its sample history  *)
(* is 0, and both event buffers are empty.                                 *)
(***************************************************************************)
C16_FreshObject ==
    scans = 0 =>
        /\ \A s \in ScanCodes : ~isSwitchClosed(s)
        /\ \A cell \in Cells :
              /\ m_switch_map[cell[1]][cell[2]].state = UNKNOWN
              /\ m_switch_map[cell[1]][cell[2]].sample_buffer = 0
        /\ m_scancode_event_buffer_closed_len = 0
        /\ m_scancode_event_buffer_opened_len = 0
        /\ m_scancode_event_buffer_closed = EmptyBuffer
        /\ m_scancode_event_buffer_opened = EmptyBuffer
        /\ (last_call.op = "isSwitchClosed" => last_call.result = FALSE)

\* isSwitchClosed(1) is the first operation called on the object, before
\* setup and before any scan.
C16_Witness ==
    /\ scans = 0
    /\ gpio = << >>
    /\ last_call = [op |-> "isSwitchClosed", scancode |-> 1, result |-> FALSE]

\* Log entries that are calls of fn on pin.
CallsOn(log, fn, pin) == {i \in DOMAIN log : log[i].fn = fn /\ log[i].pin = pin}

SetupStep == pc = "idle" /\ pc' = "idle" /\ last_call'.op = "setup"

\* The dispatches this step adds to the pass's log.
NewCalls == (Len(calls) + 1) .. Len(calls')

(***************************************************************************)
(* C18  Every dispatch of a kind goes to the handler member of that kind,  *)
(* and the members are those of the most recent setup() call: a setup step *)
(* stores both of its arguments (nullptr included) and no other step       *)
(* changes them.  A dispatch with no handler invokes nothing, while the    *)
(* buffer it flushes is still emptied and the cells whose events it        *)
(* carried are still latched.                                              *)
(***************************************************************************)
C18_HandlersOfLastSetup ==
    [][/\ SetupStep =>
             /\ m_switchhandler_closed' = last_call'.switchclosed_handler
             /\ m_switchhandler_open' = last_call'.switchopen_handler
       /\ ~SetupStep =>
             UNCHANGED << m_switchhandler_closed, m_switchhandler_open >>
       /\ \A i \in NewCalls :
             /\ calls'[i].handler = HandlerOf(calls'[i].kind)
             /\ calls'[i].kind = "closed" => m_scancode_event_buffer_closed_len' = 0
             /\ calls'[i].kind = "open" => m_scancode_event_buffer_opened_len' = 0
       /\ \A s \in ScanCodes :
             /\ QueuedClosed(s) => (SwitchOf(s).state)' = CLOSED
             /\ QueuedOpen(s) => (SwitchOf(s).state)' = OPEN]_vars

\* A pass dispatched closed events to a handler and dropped its open events
\* for want of one; then setup() was called with the handlers the other way
\* round.  The dropped switch is latched OPEN and both buffers are empty.
C18_Witness ==
    /\ last_call = [op |-> "setup", switchclosed_handler |-> NULL,
                    switchopen_handler |-> "handler"]
    /\ \E i, j \in DOMAIN calls :
          /\ calls[i].kind = "closed" /\ calls[i].handler = "handler"
          /\ calls[j].kind = "open" /\ calls[j].handler = NULL
          /\ \A k \in DOMAIN Batch(calls[j]) :
                SwitchOf(Batch(calls[j])[k]).state = OPEN
    /\ m_scancode_event_buffer_closed_len = 0
    /\ m_scancode_event_buffer_opened_len = 0

\* The digitalRead calls of a log, in order.
Reads(log) == SelectSeq(log, LAMBDA g : g.fn = "digitalRead")

\* The one log entry that reads the cell (0 when there is not exactly one).
ReadIndex(log, cell) ==
    IF Cardinality(ReadsOfCell(log, cell)) = 1
    THEN CHOOSE i \in ReadsOfCell(log, cell) : TRUE
    ELSE 0

(***************************************************************************)
(* C19  When scan() has returned, in either debounce mode and whatever the *)
(* cells' states, the pass has performed exactly ROW_COUNT*COL_COUNT       *)
(* digitalRead calls: every cell was read exactly once, in row-major       *)
(* order, each column pin once per row.  While the pass runs, the reads    *)
(* made so far are those of the cells before the current one.              *)
(***************************************************************************)
C19_OneReadPerCell ==
    /\ AfterScan =>
          /\ Len(Reads(gpio)) = ROW_COUNT * COL_COUNT
          /\ \A i \in 1 .. Len(Reads(gpio)) :
                Reads(gpio)[i].pin = m_col_pins[(i - 1) % COL_COUNT]
          /\ \A cell \in Cells : ReadIndex(gpio, cell) # 0
          /\ \A c1, c2 \in Cells :
                (c1[1] * COL_COUNT + c1[2] < c2[1] * COL_COUNT + c2[2])
                    => ReadIndex(gpio, c1) < ReadIndex(gpio, c2)
          /\ \A cc \in Cols :
                Cardinality(CallsOn(gpio, "digitalRead", m_col_pins[cc])) = ROW_COUNT
    /\ pc \in {"row", "col"} => Len(Reads(gpio)) = r * COL_COUNT + c

\* A second pass has returned with debounce enabled, a cell being in its
\* settle period.
C19_Witness ==
    /\ AfterScan
    /\ scans >= 2
    /\ Len(Reads(gpio)) = ROW_COUNT * COL_COUNT
    /\ m_enable_software_debounce
    /\ \E cell \in Cells :
          Shr(BitAnd(m_switch_map[cell[1]][cell[2]].sample_buffer, DebounceSettleMask),
              DebounceSettleShift) = 1

\* Rows whose pin is in OUTPUT mode.
RowsInOutput == {rr \in Rows : pin_mode[m_row_pins[rr]] = OUTPUT}

\* The pinMode(pin, OUTPUT) calls of a log, in order.
Activations(log) ==
    SelectSeq(log, LAMBDA g : g.fn = "pinMode" /\ g.arg = OUTPUT)

\* The log entries this step adds.
NewGpio == IF Len(gpio') > Len(gpio) THEN (Len(gpio) + 1) .. Len(gpio') ELSE {}

(***************************************************************************)
(* C20  Row strobe protocol.  At any moment at most one row pin is in      *)
(* OUTPUT mode; inside the column loop exactly the current row's pin is,   *)
(* driven LOW; between rows and when scan() has returned every row pin is  *)
(* back in INPUT mode; rows are activated in index order.  Every           *)
(* digitalWrite is a LOW on a row pin put in OUTPUT mode just before, and  *)
(* every digitalRead is made while exactly one row is in OUTPUT mode,      *)
(* driven LOW.                                                             *)
(***************************************************************************)
C20_RowStrobe ==
    /\ [](/\ Cardinality(RowsInOutput) <= 1
          /\ pc = "col" =>
                /\ RowsInOutput = {r}
                /\ pin_out[m_row_pins[r]] = LOW
          /\ pc = "row" =>
                /\ RowsInOutput = {}
                /\ \A rr \in Rows : rr < r => pin_mode[m_row_pins[rr]] = INPUT
          /\ ScanReturned =>
                \A rr \in Rows : pin_mode[m_row_pins[rr]] = INPUT
          /\ last_call.op = "scan" =>
                /\ \A i \in 1 .. Len(Activations(gpio)) :
                      Activations(gpio)[i].pin = m_row_pins[i - 1]
                /\ pc = "idle" => Len(Activations(gpio)) = ROW_COUNT)
    /\ [][\A i \in NewGpio :
             /\ gpio'[i].fn = "digitalWrite" =>
                   /\ gpio'[i].arg = LOW
                   /\ \E rr \in Rows : gpio'[i].pin = m_row_pins[rr]
                   /\ i > 1 /\ gpio'[i - 1] = GpioCall("pinMode", gpio'[i].pin, OUTPUT)
                   /\ pin_mode'[gpio'[i].pin] = OUTPUT
             /\ gpio'[i].fn = "digitalRead" =>
                   /\ Cardinality(RowsInOutput) = 1
                   /\ \A rr \in RowsInOutput : pin_out[m_row_pins[rr]] = LOW
                   /\ \E cc \in Cols : gpio'[i].pin = m_col_pins[cc]]_vars

\* The pass is inside the column loop of the second row: the first row's
\* pin is back in INPUT mode, the second's is in OUTPUT mode, and a column
\* has been read under it.
C20_Witness ==
    /\ pc = "col" /\ r = 1 /\ c = 1
    /\ pin_mode[m_row_pins[0]] = INPUT
    /\ pin_mode[m_row_pins[1]] = OUTPUT
    /\ gpio[Len(gpio)].fn = "digitalRead"

(***************************************************************************)
(* C21  isSwitchClosed is a pure read: a call with any argument, valid or  *)
(* not, between scans, changes no cell's state or sample history, neither  *)
(* event buffer nor its count, no handler, no pin mode or level, makes no  *)
(* pin call and invokes no handler.                                        *)
(***************************************************************************)
C21_QueryPureRead ==
    [][\A q \in QueryArgs :
          Queried(q) =>
              /\ UNCHANGED << m_switch_map,
                              m_scancode_event_buffer_opened,
                              m_scancode_event_buffer_opened_len,
                              m_scancode_event_buffer_closed,
                              m_scancode_event_buffer_closed_len,
                              m_switchhandler_closed, m_switchhandler_open >>
              /\ UNCHANGED << pin_mode, pin_out, gpio >>
              /\ UNCHANGED << calls, closed_delivered, open_delivered >>]_vars

\* isSwitchClosed(3) has just returned true after a pass that closed that
\* switch and dispatched its event to a handler.
C21_Witness ==
    /\ last_call = [op |-> "isSwitchClosed", scancode |-> 3, result |-> TRUE]
    /\ \E i \in DOMAIN calls : calls[i].kind = "closed" /\ calls[i].handler # NULL
    /\ SwitchOf(3).sample_buffer # 0

(***************************************************************************)
(* Vocabulary of the per-cell step                                         *)
(***************************************************************************)
\* This step is one iteration of the column loop: it samples cell (r, c).
CellStep == pc = "col" /\ pc' = "col" /\ c' = c + 1

\* The cell this step samples, before and after, and the raw sample taken.
CellBefore == m_switch_map[r][c]
CellAfter == m_switch_map'[r][c]
RawSample == IF gpio'[Len(gpio')].arg = LOW THEN 1 ELSE 0

\* The two fields packed in sample_buffer, read arithmetically: the settle
\* counter above the 5-bit sample window.
SettleOf(sample_buffer) == sample_buffer \div 32
WindowOf(sample_buffer) == sample_buffer % 32

(***************************************************************************)
(* C22  Debounce filter step (debounce enabled).  When a cell is sampled   *)
(* with its settle counter below 4, the counter goes up by one and the     *)
(* sample window is unchanged: the raw sample is discarded.  With the      *)
(* counter at 4, the 5-bit window is shifted left by one, its oldest bit   *)
(* dropped and the raw sample put in its lowest bit, and the counter stays *)
(* at 4.  (A transition latched in the same step then clears the counter.) *)
(***************************************************************************)
C22_FilterStep ==
    [][(CellStep /\ m_enable_software_debounce) =>
          LET old == CellBefore.sample_buffer
              new == CellAfter.sample_buffer
              latched == CellAfter.state # CellBefore.state
          IN  IF SettleOf(old) < 4
              THEN /\ WindowOf(new) = WindowOf(old)
                   /\ SettleOf(new) = IF latched THEN 0 ELSE SettleOf(old) + 1
              ELSE /\ SettleOf(old) = 4
                   /\ WindowOf(new) = ((2 * WindowOf(old)) % 32) + RawSample
                   /\ SettleOf(new) = IF latched THEN 0 ELSE 4]_vars

\* A closed switch, settled, has been read released, released, pressed: its
\* window lost its two oldest bits and holds 11001, the counter still at 4.
C22_Witness ==
    \E cell \in Cells :
        /\ m_switch_map[cell[1]][cell[2]].state = CLOSED
        /\ SettleOf(m_switch_map[cell[1]][cell[2]].sample_buffer) = 4
        /\ WindowOf(m_switch_map[cell[1]][cell[2]].sample_buffer) = 25

\* This step takes the sampled cell into CLOSED.
LatchesClosed == CellStep /\ CellBefore.state # CLOSED /\ CellAfter.state = CLOSED

(***************************************************************************)
(* C23 as stated: when a cell transitions to CLOSED, its state is latched  *)
(* CLOSED, its scancode is appended to the closed-event buffer, and its    *)
(* sample window bits are reset to 0 with a fresh settle period beginning. *)
(***************************************************************************)
C23_ClosedResetsWindow ==
    [][LatchesClosed =>
          /\ QueuedClosed(CellBefore.scancode)
          /\ WindowOf(CellAfter.sample_buffer) = 0
          /\ SettleOf(CellAfter.sample_buffer) = 0]_vars

(***************************************************************************)
(* C23 amended: a sampled cell transitions to CLOSED exactly when its      *)
(* window after the filter step is all ones and it is not already CLOSED;  *)
(* then its state is latched CLOSED, its scancode is appended to the       *)
(* closed-event buffer and its settle counter is reset to 0, so a fresh    *)
(* settle period begins, while its sample window bits are kept, all ones.  *)
(***************************************************************************)
C23_ClosedRestartsSettle ==
    [][CellStep =>
          /\ LatchesClosed <=>
                (WindowOf(CellAfter.sample_buffer) = 31 /\ CellBefore.state # CLOSED)
          /\ LatchesClosed =>
                /\ QueuedClosed(CellBefore.scancode)
                /\ WindowOf(CellAfter.sample_buffer) = 31
                /\ SettleOf(CellAfter.sample_buffer) = 0]_vars

\* With debounce on, a switch has just been latched CLOSED, from OPEN: its
\* window is all ones, its settle counter 0, its closed event dispatched.
C23_Witness ==
    /\ m_enable_software_debounce
    /\ \E s \in ScanCodes :
          /\ SwitchOf(s).state = CLOSED
          /\ SwitchOf(s).sample_buffer = 31
          /\ closed_delivered[s] = 1

(***************************************************************************)
(* C24  With the default parameters the debounce threshold is the low 3    *)
(* bits of the sample window: once a cell's last 3 folded samples are all  *)
(* pressed and it is not CLOSED it is latched CLOSED, and once they are    *)
(* all released and it is not OPEN it is latched OPEN.                     *)
(***************************************************************************)
C24_ThreeSampleThreshold ==
    [][(CellStep /\ m_enable_software_debounce) =>
          LET low3 == WindowOf(CellAfter.sample_buffer) % 8
          IN  /\ (low3 = 7 /\ CellBefore.state # CLOSED) => CellAfter.state = CLOSED
              /\ (low3 = 0 /\ CellBefore.state # OPEN) => CellAfter.state = OPEN]_vars

\* This step dispatches a full batch of a kind.
FullBatchDispatched(kind) ==
    \E i \in NewCalls :
        /\ calls'[i].kind = kind
        /\ calls'[i].scancodes_len = EVENT_BUFFER_SIZE
        /\ Len(Batch(calls'[i])) = EVENT_BUFFER_SIZE

(***************************************************************************)
(* C25  Mid-pass flush: when the event a sampled cell appends brings a     *)
(* buffer's count to EVENT_BUFFER_SIZE, that buffer is flushed in the same *)
(* column-loop iteration, its handler given exactly EVENT_BUFFER_SIZE      *)
(* scancodes and its count reset to 0; so no cell is ever sampled while a  *)
(* buffer is full.                                                         *)
(***************************************************************************)
C25_MidPassFlush ==
    /\ [](/\ m_scancode_event_buffer_closed_len < EVENT_BUFFER_SIZE
          /\ m_scancode_event_buffer_opened_len < EVENT_BUFFER_SIZE)
    /\ [][CellStep =>
             /\ (/\ QueuedClosed(CellBefore.scancode)
                 /\ m_scancode_event_buffer_closed_len + 1 = EVENT_BUFFER_SIZE)
                    => /\ FullBatchDispatched("closed")
                       /\ m_scancode_event_buffer_closed_len' = 0
             /\ (/\ QueuedOpen(CellBefore.scancode)
                 /\ m_scancode_event_buffer_opened_len + 1 = EVENT_BUFFER_SIZE)
                    => /\ FullBatchDispatched("open")
                       /\ m_scancode_event_buffer_opened_len' = 0]_vars

\* Mid-pass, a full batch of open events has been dispatched, the open
\* buffer is empty again and cells remain to be sampled.
C25_Witness ==
    /\ pc = "col"
    /\ \E i \in DOMAIN calls :
          calls[i].kind = "open" /\ calls[i].scancodes_len = EVENT_BUFFER_SIZE
    /\ m_scancode_event_buffer_opened_len = 0
    /\ ~ColumnLoopDone(c)

\* The sampled cell's window after the filter step, from the stored history
\* and the raw sample.
FilteredWindow ==
    IF ~m_enable_software_debounce THEN (IF RawSample = 1 THEN 31 ELSE 0)
    ELSE IF SettleOf(CellBefore.sample_buffer) < 4
         THEN WindowOf(CellBefore.sample_buffer)
         ELSE ((2 * WindowOf(CellBefore.sample_buffer)) % 32) + RawSample

\* This step leaves both event sides alone: nothing stored, nothing
\* dispatched, no event generated.
NoEvent ==
    /\ UNCHANGED << m_scancode_event_buffer_closed, m_scancode_event_buffer_closed_len,
                    m_scancode_event_buffer_opened, m_scancode_event_buffer_opened_len >>
    /\ calls' = calls
    /\ events' = events

(***************************************************************************)
(* C26  When a cell is sampled and its window after the filter step is     *)
(* neither all ones nor all zeros, the step changes neither its latched    *)
(* state nor either event buffer; the same holds for a window of all ones  *)
(* on a CLOSED cell and for a window of all zeros on an OPEN cell.         *)
(***************************************************************************)
C26_NoTransitionWhileUnsettled ==
    [][CellStep =>
          ((\/ FilteredWindow \notin {0, 31}
            \/ FilteredWindow = 31 /\ CellBefore.state = CLOSED
            \/ FilteredWindow = 0 /\ CellBefore.state = OPEN)
               => /\ CellAfter.state = CellBefore.state
                  /\ NoEvent)]_vars

\* An OPEN switch past its settle period has been read pressed four times
\* running (window 01111) and is still OPEN, no closed event dispatched.
C26_Witness ==
    /\ m_enable_software_debounce
    /\ \E s \in ScanCodes :
          /\ SwitchOf(s).state = OPEN
          /\ SwitchOf(s).sample_buffer = 4 * 32 + 15
          /\ closed_delivered[s] = 0

(***************************************************************************)
(* C27  UNKNOWN is only an initial state: no step takes a cell from OPEN   *)
(* or CLOSED to UNKNOWN, and once the first scan() call has returned no    *)
(* cell is UNKNOWN, in either debounce mode and whatever levels were read. *)
(***************************************************************************)
C27_UnknownOnlyInitial ==
    /\ [](ScanReturned =>
             \A cell \in Cells : m_switch_map[cell[1]][cell[2]].state # UNKNOWN)
    /\ [][\A cell \in Cells :
             m_switch_map[cell[1]][cell[2]].state # UNKNOWN
                 => m_switch_map'[cell[1]][cell[2]].state # UNKNOWN]_vars

\* The first pass has returned with debounce on: a switch read pressed and
\* one read released have both left UNKNOWN.
C27_Witness ==
    /\ AfterScan /\ scans = 1
    /\ m_enable_software_debounce
    /\ \E c1, c2 \in Cells :
          /\ LevelsRead(gpio, c1) = {LOW}
          /\ LevelsRead(gpio, c2) = {HIGH}
          /\ m_switch_map[c1[1]][c1[2]].state = OPEN
          /\ m_switch_map[c2[1]][c2[2]].state = OPEN

\* The value the filter step computes for the sampled cell, before it is
\* stored in the byte.
FilteredUnwrapped ==
    IF SettleOf(CellBefore.sample_buffer) < 4
    THEN (SettleOf(CellBefore.sample_buffer) + 1) * 32 + WindowOf(CellBefore.sample_buffer)
    ELSE SettleOf(CellBefore.sample_buffer) * 32 + FilteredWindow

(***************************************************************************)
(* C28  With debounce enabled, in every reachable state every cell's       *)
(* settle counter is at most 4 and its packed sample history fits in 8     *)
(* bits; the value the filter step computes fits in 8 bits before it is    *)
(* stored; and every step that latches a transition leaves the cell's      *)
(* settle counter at 0.                                                    *)
(***************************************************************************)
C28_SettleCounterBounded ==
    /\ [](m_enable_software_debounce =>
             \A cell \in Cells :
                 /\ m_switch_map[cell[1]][cell[2]].sample_buffer \in 0 .. 255
                 /\ SettleOf(m_switch_map[cell[1]][cell[2]].sample_buffer) <= 4)
    /\ [][(CellStep /\ m_enable_software_debounce) =>
             /\ FilteredUnwrapped < 256
             /\ CellAfter.state # CellBefore.state =>
                   SettleOf(CellAfter.sample_buffer) = 0]_vars

\* A switch that was closed, then released through a whole settle period
\* and sample window, has just been latched OPEN: its history byte is 0.
C28_Witness ==
    /\ m_enable_software_debounce
    /\ \E s \in ScanCodes :
          /\ closed_delivered[s] > 0
          /\ SwitchOf(s).state = OPEN
          /\ SwitchOf(s).sample_buffer = 0

(***************************************************************************)
(* C29  A setup() call, before or between passes, leaves every cell's      *)
(* state, sample history and scancode and both event buffers and their     *)
(* counts unchanged; and no step of setup(), scan() or isSwitchClosed()    *)
(* changes the pin lists, the column input mode or the debounce flag,      *)
(* which stay as the constructor set them.                                 *)
(***************************************************************************)
C29_SetupFrame ==
    /\ [](/\ m_row_pins = TestRowPins
          /\ m_col_pins = TestColPins
          /\ m_column_input_type =
                (IF ctor_args.enable_pullups THEN INPUT_PULLUP ELSE INPUT)
          /\ m_enable_software_debounce = ctor_args.enable_software_debounce)
    /\ [][/\ SetupStep =>
                UNCHANGED << m_switch_map,
                             m_scancode_event_buffer_opened,
                             m_scancode_event_buffer_opened_len,
                             m_scancode_event_buffer_closed,
                             m_scancode_event_buffer_closed_len >>
          /\ UNCHANGED << m_row_pins, m_col_pins, m_column_input_type,
                          m_enable_software_debounce >>]_vars

\* setup() has just been called, clearing the handlers, after two passes
\* that left one switch CLOSED and another OPEN.
C29_Witness ==
    /\ last_call = [op |-> "setup", switchclosed_handler |-> NULL,
                    switchopen_handler |-> NULL]
    /\ scans >= 2
    /\ \E s1, s2 \in ScanCodes :
          /\ SwitchOf(s1).state = CLOSED /\ SwitchOf(s1).sample_buffer # 0
          /\ SwitchOf(s2).state = OPEN /\ closed_delivered[s2] > 0

StrictlyAscending(seq) == \A i, j \in DOMAIN seq : i < j => seq[i] < seq[j]

IsPrefix(p, seq) == Len(p) <= Len(seq) /\ \A i \in DOMAIN p : p[i] = seq[i]

(***************************************************************************)
(* C30  Within one pass, for each kind, the batches dispatched so far,     *)
(* concatenated in dispatch order, are a prefix of the scancodes of the    *)
(* cells that generated an event of that kind in the pass, and the whole   *)
(* of them when scan() has returned; that list is strictly ascending;      *)
(* every dispatched scancode lies in 1..ROW_COUNT*COL_COUNT; no scancode   *)
(* occurs twice in a pass across both kinds; and a sampled cell generates  *)
(* at most one event, carrying its own scancode.                           *)
(***************************************************************************)
C30_BatchesInScanOrder ==
    /\ [](/\ \A kind \in Kinds :
               /\ IsPrefix(FlattenBatches(CallsOf(kind)), EventsOf(kind))
               /\ ScanReturned => FlattenBatches(CallsOf(kind)) = EventsOf(kind)
               /\ StrictlyAscending(EventsOf(kind))
               /\ \A i \in DOMAIN FlattenBatches(CallsOf(kind)) :
                     FlattenBatches(CallsOf(kind))[i] \in 1 .. (ROW_COUNT * COL_COUNT)
          /\ Distinct([i \in DOMAIN events |-> events[i].scancode]))
    /\ [][CellStep =>
             \/ events' = events
             \/ \E kind \in Kinds :
                   events' = Append(events, [kind |-> kind,
                                             scancode |-> CellBefore.scancode])]_vars

\* A pass has returned in which three switches generated closed events,
\* dispatched in more than one batch or one full one, and the fourth an
\* open event.
C30_Witness ==
    /\ ScanReturned
    /\ Len(EventsOf("closed")) = 3
    /\ Len(EventsOf("open")) = 1
    /\ FlattenBatches(CallsOf("closed")) = EventsOf("closed")
    /\ FlattenBatches(CallsOf("open")) = EventsOf("open")

\* The scancodes 1 .. ROW_COUNT*COL_COUNT in ascending order.
AllScancodes == [i \in 1 .. (ROW_COUNT * COL_COUNT) |-> i]

SampledThisPass(cell) ==
    pc \in {"row", "col"} /\ (cell[1] < r \/ (cell[1] = r /\ cell[2] < c))

\* Number of passes that have sampled the cell.
SampledPasses(cell) ==
    IF pc = "idle" \/ SampledThisPass(cell) THEN scans ELSE scans - 1

\* This step latches a state change of the cell it samples.
Latches == CellStep /\ CellAfter.state # CellBefore.state

(***************************************************************************)
(* C32  With debounce enabled, two consecutive latched state changes of    *)
(* the same cell are at least 9 passes apart; no cell is CLOSED and no     *)
(* closed event is dispatched before the 10th pass; and a cell read        *)
(* pressed on every pass from construction is latched CLOSED exactly on    *)
(* the 10th pass.                                                          *)
(***************************************************************************)
C32_ChangesNinePassesApart ==
    /\ [](/\ \A s \in ScanCodes : closed_delivered[s] > 0 => scans >= 10
          /\ \A cell \in Cells :
                /\ m_switch_map[cell[1]][cell[2]].state = CLOSED
                      => SampledPasses(cell) >= 10
                /\ (samples[cell].only_pressed /\ SampledPasses(cell) >= 1) =>
                      /\ (m_switch_map[cell[1]][cell[2]].state = CLOSED)
                            <=> (SampledPasses(cell) >= 10)
                      /\ SampledPasses(cell) = 10 => samples[cell].since_change = 0)
    /\ [][(Latches /\ samples[<< r, c >>].changed) =>
             samples[<< r, c >>].since_change + 1 >= 9]_vars

\* A switch was latched CLOSED on the 10th pass and has just been latched
\* OPEN again, on the 19th.
C32_Witness ==
    /\ scans = 19
    /\ \E cell \in Cells :
          /\ samples[cell].changed /\ samples[cell].since_change = 0
          /\ m_switch_map[cell[1]][cell[2]].state = OPEN
          /\ closed_delivered[m_switch_map[cell[1]][cell[2]].scancode] = 1

\* After this step the sampled cell's last 5 raw samples, this pass's
\* included, were all at the level.
FiveRunning(level) ==
    /\ samples'[<< r, c >>].run_level = level
    /\ samples'[<< r, c >>].run_len >= 5

(***************************************************************************)
(* C33  Bounce rejection with debounce enabled: a pass latches a cell      *)
(* CLOSED only if the raw samples read for it in that pass and the four    *)
(* before were all pressed, and latches a CLOSED cell OPEN only if they    *)
(* were all released; a run of fewer than 5 agreeing samples never changes *)
(* the latched state of a cell that is already OPEN or CLOSED.             *)
(***************************************************************************)
C33_BounceRejection ==
    [][(CellStep /\ m_enable_software_debounce) =>
          /\ (CellBefore.state # CLOSED /\ CellAfter.state = CLOSED)
                => FiveRunning(LOW)
          /\ (CellBefore.state = CLOSED /\ CellAfter.state = OPEN)
                => FiveRunning(HIGH)
          /\ (CellBefore.state \in {OPEN, CLOSED} /\ CellAfter.state # CellBefore.state)
                => samples'[<< r, c >>].run_len >= 5]_vars

\* A switch that bounced (read released at least once, after its 10th
\* pass or before) has just been latched CLOSED on five pressed reads
\* running, later than the 10th pass.
C33_Witness ==
    \E cell \in Cells :
        /\ m_switch_map[cell[1]][cell[2]].state = CLOSED
        /\ samples[cell].since_change = 0
        /\ samples[cell].run_level = LOW /\ samples[cell].run_len = 5
        /\ ~samples[cell].only_pressed
        /\ SampledPasses(cell) > 10

(***************************************************************************)
(* C34  Handler-time consistency: in the step that dispatches a closed     *)
(* batch, mid-pass or at the end of the pass, every scancode of the batch  *)
(* belongs to a cell latched CLOSED, for which isSwitchClosed is true,     *)
(* when the handler runs; and every scancode of an open batch belongs to a *)
(* cell latched OPEN.                                                      *)
(***************************************************************************)
C34_HandlerSeesLatchedState ==
    [][\A i \in NewCalls :
          /\ \A k \in DOMAIN Batch(calls'[i]) : Batch(calls'[i])[k] \in ScanCodes
          /\ \A s \in ScanCodes :
                (\E k \in DOMAIN Batch(calls'[i]) : Batch(calls'[i])[k] = s) =>
                    /\ calls'[i].kind = "closed" =>
                          /\ (SwitchOf(s).state)' = CLOSED
                          /\ (isSwitchClosed(s))'
                    /\ calls'[i].kind = "open" =>
                          /\ (SwitchOf(s).state)' = OPEN
                          /\ ~(isSwitchClosed(s))']_vars

\* Mid-pass, in a second or later pass, a full closed batch has been
\* handed to a handler and cells remain to be sampled.
C34_Witness ==
    /\ pc = "col" /\ scans >= 2
    /\ \E i \in DOMAIN calls :
          /\ calls[i].kind = "closed" /\ calls[i].handler # NULL
          /\ \A k \in DOMAIN Batch(calls[i]) : isSwitchClosed(Batch(calls[i])[k])

(***************************************************************************)
(* C35  When a scan() call has returned, for every cell: if its sample     *)
(* window is all ones its latched state is CLOSED, and if its sample       *)
(* window is all zeros its latched state is OPEN.                          *)
(***************************************************************************)
C35_UniformWindowLatched ==
    ScanReturned =>
        \A cell \in Cells :
            LET swtch == m_switch_map[cell[1]][cell[2]]
            IN  /\ WindowOf(swtch.sample_buffer) = 31 => swtch.state = CLOSED
                /\ WindowOf(swtch.sample_buffer) = 0 => swtch.state = OPEN

\* A pass has returned with one switch CLOSED, its window all ones and its
\* settle period over, and another OPEN with its window all zeros.
C35_Witness ==
    /\ ScanReturned
    /\ \E c1, c2 \in Cells :
          /\ m_switch_map[c1[1]][c1[2]].state = CLOSED
          /\ m_switch_map[c1[1]][c1[2]].sample_buffer = 4 * 32 + 31
          /\ m_switch_map[c2[1]][c2[2]].state = OPEN
          /\ WindowOf(m_switch_map[c2[1]][c2[2]].sample_buffer) = 0

\* Event buffers with nothing in them and nothing dispatched: the buffers of
\* a run in which no other cell has generated an event.
IsolatedBuffers ==
    [closed |-> EmptyBuffer, closed_len |-> 0,
     opened |-> EmptyBuffer, opened_len |-> 0,
     calls |-> << >>, events |-> << >>, oob |-> FALSE]

(***************************************************************************)
(* C36  Per-cell independence: the state and sample history a pass leaves  *)
(* in the cell it samples, and the event it generates for that cell's      *)
(* scancode, are those the same cell would get from the same raw sample in *)
(* a run where the buffers are empty and nothing was dispatched, whatever  *)
(* the other cells, the buffers' contents and the handlers are; the step   *)
(* changes no other cell, and no step outside the column loop changes any  *)
(* cell.  So a cell's state, history and events after any sequence of      *)
(* passes depend only on its own sequence of raw samples.                  *)
(***************************************************************************)
C36_CellIndependence ==
    [][IF CellStep
       THEN LET alone == ScanSwitch(CellBefore, IsolatedBuffers, gpio'[Len(gpio')].arg)
            IN  /\ CellAfter = alone.swtch
                /\ events' = events \o alone.B.events
                /\ \A cell \in Cells :
                      cell # << r, c >> =>
                          m_switch_map'[cell[1]][cell[2]] = m_switch_map[cell[1]][cell[2]]
       ELSE m_switch_map' = m_switch_map]_vars

\* Mid-pass, a switch has been latched CLOSED while an open event of
\* another switch was waiting in its buffer, with an open handler set and
\* no closed handler.
C36_Witness ==
    /\ pc = "col"
    /\ m_switchhandler_closed = NULL /\ m_switchhandler_open # NULL
    /\ m_scancode_event_buffer_opened_len = 1
    /\ m_scancode_event_buffer_closed_len = 1
    /\ Len(events) = 2
    /\ events[1].kind = "open" /\ events[2].kind = "closed"
    /\ SwitchOf(events[2].scancode).state = CLOSED

====
